---- MODULE Spec2Model ----
(***************************************************************************)
(* Model of scripts/process_data.py: the fuel-name normaliser              *)
(* (get_main_fuel_category), the merge/clean engine (clean_and_merge_data) *)
(* and the GeoJSON emitter (create_geojson).                               *)
(*                                                                         *)
(* A pandas frame is a sequence of row records; every row carries its      *)
(* pandas index label, which boolean filtering preserves.  A CSV cell is   *)
(* the text that was read; numeric coercion is a table from text to        *)
(* number.  Prices are in thousandths of a euro, coordinates in degrees.   *)
(***************************************************************************)
EXTENDS Integers, Sequences, FiniteSets, TLC

VARIABLES
    prices_df,        \* the caller's price frame (main's prices_df)
    caller_stations,  \* the caller's station frame (main's stations_df object)
    stations_df,      \* clean_and_merge_data's local name stations_df
    price_groups,     \* station id -> (category -> cheapest price)
    price_dates,      \* station id -> (category -> date of that price)
    main_category,    \* category computed for the row processed last
    i,                \* number of price rows iterrows() has yielded
    pc,               \* position in the pipeline
    geojson,          \* the feature list built by create_geojson
    run,              \* "first" or "second" invocation on the same objects
    first_geojson     \* the document the first invocation returned

vars == <<prices_df, caller_stations, stations_df, price_groups, price_dates,
          main_category, i, pc, geojson, run, first_geojson>>

(***************************************************************************)
(* Bounds of the explored inputs.                                          *)
(***************************************************************************)
MaxRows == 2
MaxStations == 2

(***************************************************************************)
(* FUEL_CATEGORIES, in dictionary order, each list in list order.          *)
(***************************************************************************)
FUEL_CATEGORIES ==
  << [category |-> "Benzina", fuels |->
        << "Benzina", "Benzina speciale", "Benzina 100 ottani", "Benzina 102 Ottani",
           "Benzina Plus 98", "Benzina Speciale 98 Ottani", "Benzina Energy 98 ottani",
           "Benzina Shell V Power", "Benzina WR 100", "Blue Super", "Verde speciale",
           "F-101", "F101", "V-Power" >>],
     [category |-> "Gasolio", fuels |->
        << "Gasolio", "Gasolio Alpino", "Gasolio Artico", "Gasolio speciale",
           "Gasolio Artico Igloo", "Gasolio Ecoplus", "Gasolio Energy D",
           "Gasolio Gelo", "Gasolio Oro Diesel", "Gasolio Plus", "Gasolio Premium",
           "Gasolio Prestazionale", "Gasolio artico", "Blu Diesel Alpino",
           "Blue Diesel", "Diesel Shell V Power", "DieselMax", "E-DIESEL",
           "Excellium Diesel", "Excellium diesel", "GP DIESEL", "Hi-Q Diesel",
           "HiQ Perform+", "S-Diesel", "Supreme Diesel", "V-Power Diesel" >>],
     [category |-> "Gasolio HVO", fuels |->
        << "HVO", "HVO100", "HVOlution", "HVOvolution", "Diesel HVO",
           "Diesel HVO Energy", "Gasolio Bio HVO", "Gasolio HVO", "HVO Future",
           "HVO eco diesel", "REHVO", "BCHVO" >>],
     [category |-> "GPL", fuels |-> << "GPL" >>],
     [category |-> "Metano", fuels |-> << "Metano", "L-GNC" >>],
     [category |-> "GNL", fuels |-> << "GNL" >>] >>

Range(s) == { s[k] : k \in DOMAIN s }

\* `fuel_name in fuels`: membership in a Python list.
InList(fuel_name, fuels) == \E k \in DOMAIN fuels : fuels[k] = fuel_name

\* The for loop of get_main_fuel_category from table position k on: the first
\* category whose list holds fuel_name, else the fallback value.
RECURSIVE ScanCategories(_, _, _)
ScanCategories(fuel_name, k, fallback) ==
    IF k > Len(FUEL_CATEGORIES) THEN fallback
    ELSE IF InList(fuel_name, FUEL_CATEGORIES[k].fuels)
         THEN FUEL_CATEGORIES[k].category
         ELSE ScanCategories(fuel_name, k + 1, fallback)

\* A normaliser that files every unknown name under one catch-all category.
get_main_fuel_category_catchall(fuel_name) == ScanCategories(fuel_name, 1, "Altro")

get_main_fuel_category(fuel_name) == ScanCategories(fuel_name, 1, fuel_name)

(***************************************************************************)
(* Numeric coercion.  A missing number (NaN) is [ok |-> FALSE].            *)
(***************************************************************************)
NaN == [ok |-> FALSE, v |-> 0]
Num(n) == [ok |-> TRUE, v |-> n]

\* The price texts of the explored inputs and the number float() reads in each
\* (thousandths); "1.75" and "1.750" are two spellings of one number.
PriceLiterals == ("1.75" :> 1750) @@ ("1.750" :> 1750) @@ ("1.899" :> 1899)

\* float(price): a number, or ValueError ([ok |-> FALSE]) on any other text.
float(cell) == IF cell \in DOMAIN PriceLiterals THEN Num(PriceLiterals[cell]) ELSE NaN

\* The coordinate texts of the explored inputs that are numerals (degrees).
CoordLiterals ==
    ("0" :> 0) @@ ("5" :> 5) @@ ("6" :> 6) @@ ("12" :> 12) @@ ("19" :> 19) @@
    ("20" :> 20) @@ ("34" :> 34) @@ ("35" :> 35) @@ ("41" :> 41) @@ ("48" :> 48) @@
    ("49" :> 49)

\* pd.to_numeric(..., errors='coerce') on one cell.
to_numeric(cell) == IF cell \in DOMAIN CoordLiterals THEN Num(CoordLiterals[cell]) ELSE NaN

\* Series.between(left, right): inclusive on both sides.
between(x, left, right) == left <= x /\ x <= right

LatMin == 35
LatMax == 48
LonMin == 6
LonMax == 19

(***************************************************************************)
(* Dictionaries and frame cells.                                           *)
(***************************************************************************)
EmptyDict == [k \in {} |-> 0]

\* dict with d[key] = value set.
Put(d, key, value) == [k \in DOMAIN d \cup {key} |-> IF k = key THEN value ELSE d[k]]

\* A cell of the 'prices' / 'priceDates' column: the column does not exist
\* ("absent"), Series.map found no key ("nan"), or it mapped to a dict.
NoColumn == [col |-> "absent", val |-> EmptyDict]
NaNCell == [col |-> "nan", val |-> EmptyDict]
DictCell(d) == [col |-> "dict", val |-> d]

\* A descriptive cell: the column is missing from the frame, the cell is empty
\* in the CSV (read as NaN), or it holds text.
Absent == [kind |-> "absent", text |-> ""]
Missing == [kind |-> "nan", text |-> ""]
Text(t) == [kind |-> "str", text |-> t]

Columns == {"Gestore", "Bandiera", "Tipo Impianto", "Nome Impianto",
            "Indirizzo", "Comune", "Provincia"}

\* str(station.get(column, '')): the default only when the column is missing;
\* a NaN cell is rendered as the text "nan".
str_get(station, column) ==
    LET cell == station.desc[column] IN
    CASE cell.kind = "absent" -> ""
      [] cell.kind = "nan" -> "nan"
      [] OTHER -> cell.text

(***************************************************************************)
(* The price-grouping loop body, lines 80-100, for one row.                *)
(***************************************************************************)
\* The comparison made non-strict: an equal price replaces the entry.
CheaperOrEqual(new, old) == new <= old

\* The comparison reversed.
Dearer(new, old) == new > old

\* Line 98: float(price) < price_groups[station_id][main_category].
Cheaper(new, old) == new < old

\* Line 88-90: a station seen for the first time gets two empty dicts.
WithStation(groups, station_id) ==
    IF station_id \in DOMAIN groups THEN groups ELSE Put(groups, station_id, EmptyDict)

\* Whether the row's price is stored (lines 93 and 98); price is float(row.prezzo).
Replaces(groups, station_id, category, price) ==
    LET g == WithStation(groups, station_id)[station_id] IN
    category \notin DOMAIN g \/ Cheaper(price, g[category])

\* price_groups after a row whose price float() accepts.
GroupedPrices(row, groups) ==
    LET category == get_main_fuel_category(row.descCarburante)
        price == float(row.prezzo).v
        g == WithStation(groups, row.idImpianto)
    IN IF Replaces(groups, row.idImpianto, category, price)
       THEN Put(g, row.idImpianto, Put(g[row.idImpianto], category, price))
       ELSE g

\* Dates kept under the raw fuel name instead of the category.
GroupedDatesByRawName(row, groups, dates) ==
    LET d == WithStation(dates, row.idImpianto) IN
    Put(d, row.idImpianto, Put(d[row.idImpianto], row.descCarburante, row.dtComu))

\* price_dates after the same row; groups is price_groups before the row.
GroupedDates(row, groups, dates) ==
    LET category == get_main_fuel_category(row.descCarburante)
        price == float(row.prezzo).v
        d == WithStation(dates, row.idImpianto)
    IN IF Replaces(groups, row.idImpianto, category, price)
       THEN Put(d, row.idImpianto, Put(d[row.idImpianto], category, row.dtComu))
       ELSE d

\* Rows consumed by the iteration.
Drained(frame) == << >>

\* prices_df after `for _, row in prices_df.iterrows()`: iterating reads the
\* frame and leaves it as it was.
AfterIterrows(frame) == frame

\* The except clause skipping the row instead of exiting.
except_skip_row == "group"

\* Lines 130-132: any exception prints and calls sys.exit(1).
except_clean == "aborted"

(***************************************************************************)
(* Frame operations of clean_and_merge_data, lines 103-126.                *)
(***************************************************************************)
\* Series.map(d) on one id: the dict of the id, NaN when the id is no key.
MapCell(d, id) == IF id \in DOMAIN d THEN DictCell(d[id]) ELSE NaNCell

\* Lines 103-104: both columns are set on the frame stations_df names.
AttachColumns(frame, groups, dates) ==
    [k \in DOMAIN frame |->
        [frame[k] EXCEPT !.prices = MapCell(groups, frame[k].idImpianto),
                         !.priceDates = MapCell(dates, frame[k].idImpianto)]]

\* Line 107: stations_df[stations_df['prices'].notna()], a new frame.
DropUnpriced(frame) == SelectSeq(frame, LAMBDA s : s.prices.col # "nan")

\* Lines 111-112: both coordinate columns coerced to numbers.
CoerceCoordinates(frame) ==
    [k \in DOMAIN frame |->
        [frame[k] EXCEPT !.Latitudine = to_numeric(frame[k].Latitudine),
                         !.Longitudine = to_numeric(frame[k].Longitudine)]]

\* Line 116: dropna(subset=['Latitudine', 'Longitudine']).
DropNaCoordinates(frame) ==
    SelectSeq(frame, LAMBDA s : s.Latitudine.ok /\ s.Longitudine.ok)

\* The bounding box with exclusive bounds.
InItalyExclusive(s) ==
    /\ s.Latitudine.v # 0
    /\ s.Longitudine.v # 0
    /\ LatMin < s.Latitudine.v /\ s.Latitudine.v < LatMax
    /\ LonMin < s.Longitudine.v /\ s.Longitudine.v < LonMax

\* The longitude test forgotten.
InItalyLatOnly(s) ==
    /\ s.Latitudine.v # 0
    /\ s.Longitudine.v # 0
    /\ between(s.Latitudine.v, LatMin, LatMax)

\* Lines 121-126: the row mask.
InItaly(s) ==
    /\ s.Latitudine.v # 0
    /\ s.Longitudine.v # 0
    /\ between(s.Latitudine.v, LatMin, LatMax)
    /\ between(s.Longitudine.v, LonMin, LonMax)

FilterItaly(frame) == SelectSeq(frame, InItaly)

(***************************************************************************)
(* create_geojson, lines 139-168.                                          *)
(***************************************************************************)
\* station.get('priceDates', {}).
get_priceDates(station) ==
    IF station.priceDates.col = "absent" THEN EmptyDict ELSE station.priceDates.val

\* Lines 145-148: [float(Longitudine), float(Latitudine)].
Coordinates(station) == << station.Longitudine.v, station.Latitudine.v >>

Feature(station) ==
    [type |-> "Feature",
     geometry |-> [type |-> "Point", coordinates |-> Coordinates(station)],
     properties |->
        [idImpianto |-> station.idImpianto,
         Gestore |-> str_get(station, "Gestore"),
         Bandiera |-> str_get(station, "Bandiera"),
         TipoImpianto |-> str_get(station, "Tipo Impianto"),
         NomeImpianto |-> str_get(station, "Nome Impianto"),
         Indirizzo |-> str_get(station, "Indirizzo"),
         Comune |-> str_get(station, "Comune"),
         Provincia |-> str_get(station, "Provincia"),
         prices |-> station.prices.val,
         priceDates |-> get_priceDates(station)]]

Features(frame) == [k \in DOMAIN frame |-> Feature(frame[k])]

(***************************************************************************)
(* Inputs.                                                                 *)
(***************************************************************************)
SeqsUpTo(S, n) == UNION { [1..m -> S] : m \in 0..n }

PriceRow(id, fuel, price, date) ==
    [idImpianto |-> id, descCarburante |-> fuel, prezzo |-> price, dtComu |-> date]

\* Price rows: two stations, two spellings of one category and a name the
\* table does not list, two prices, two dates; and a row whose price is text.
PriceRows ==
    { PriceRow(id, fuel, price, date) :
        id \in {1, 2}, fuel \in {"Benzina", "Blue Super", "AdBlue"},
        price \in {"1.750", "1.899"}, date \in {"d1", "d2"} }
    \cup { PriceRow(id, "Benzina", "n.d.", "d1") : id \in {1, 2} }

AllText == [c \in Columns |-> Text("x")]

StationRow(index, id, lat, lon, desc) ==
    [index |-> index, idImpianto |-> id, Latitudine |-> lat, Longitudine |-> lon,
     desc |-> desc, prices |-> NoColumn, priceDates |-> NoColumn]

\* Coordinate cells: each axis probed around the box with the other inside it,
\* plus the origin and non-numeric text.
CoordCells ==
    { <<lat, "12">> : lat \in {"n.d.", "0", "34", "35", "48", "49"} }
    \cup { <<"41", lon>> : lon \in {"n.d.", "0", "5", "6", "19", "20"} }
    \cup { <<"0", "0">> }

\* Station 3 has no price row in any explored price frame.
StationChoices ==
    { [id |-> id, at |-> at] : id \in {1, 3}, at \in CoordCells }

Frame(choice, desc) ==
    [k \in DOMAIN choice |->
        StationRow(k - 1, choice[k].id, choice[k].at[1], choice[k].at[2], desc)]

DefaultStations ==
    << StationRow(0, 2, "41", "12", AllText),
       StationRow(1, 3, "41", "12", AllText),
       StationRow(2, 1, "48", "6", AllText),
       StationRow(3, 1, "n.d.", "12", AllText) >>

DefaultPrices ==
    << PriceRow(1, "Benzina", "1.899", "d1"), PriceRow(1, "Blue Super", "1.75", "d2") >>

ListedFuels == UNION { Range(FUEL_CATEGORIES[k].fuels) : k \in DOMAIN FUEL_CATEGORIES }

FuelNames == ListedFuels \cup {"AdBlue", "benzina", "Gasolio ", ""}

Cells == {Absent, Missing, Text("Eni")}

Start ==
    /\ stations_df = caller_stations
    /\ price_groups = EmptyDict
    /\ price_dates = EmptyDict
    /\ main_category = ""
    /\ i = 0
    /\ pc = "group"
    /\ geojson = << >>
    /\ run = "first"
    /\ first_geojson = << >>

\* Many price frames against one station frame.
InitPrices ==
    /\ prices_df \in SeqsUpTo(PriceRows, MaxRows)
    /\ caller_stations = DefaultStations

\* Many station frames against one price frame.
InitStations ==
    /\ prices_df = DefaultPrices
    /\ caller_stations \in { Frame(c, AllText) : c \in SeqsUpTo(StationChoices, MaxStations) }

\* Every fuel name of the table, and names outside it.
InitFuels ==
    /\ prices_df \in { << PriceRow(1, f, "1.750", "d1") >> : f \in FuelNames }
    /\ caller_stations = DefaultStations

\* One station with every combination of descriptive cells.
InitDescriptions ==
    /\ prices_df = DefaultPrices
    /\ caller_stations \in
         { << StationRow(0, 1, "41", "12", d) >> : d \in [Columns -> Cells] }

Init ==
    /\ InitPrices \/ InitStations \/ InitFuels \/ InitDescriptions
    /\ Start

(***************************************************************************)
(* Actions.                                                                *)
(***************************************************************************)
\* One iteration of the loop at line 79 on a row float() accepts.
GroupRow ==
    /\ pc = "group"
    /\ i < Len(prices_df)
    /\ LET row == prices_df[i + 1] IN
        /\ float(row.prezzo).ok
        /\ main_category' = get_main_fuel_category(row.descCarburante)
        /\ price_groups' = GroupedPrices(row, price_groups)
        /\ price_dates' = GroupedDates(row, price_groups, price_dates)
    /\ i' = i + 1
    /\ UNCHANGED <<prices_df, caller_stations, stations_df, pc, geojson, run, first_geojson>>

\* One iteration on a row whose price float() rejects: lines 88-90 have run,
\* float() raises at line 94 or 98, and the except clause ends the process.
GroupRowRaises ==
    /\ pc = "group"
    /\ i < Len(prices_df)
    /\ LET row == prices_df[i + 1] IN
        /\ ~ float(row.prezzo).ok
        /\ main_category' = get_main_fuel_category(row.descCarburante)
        /\ price_groups' = WithStation(price_groups, row.idImpianto)
        /\ price_dates' = WithStation(price_dates, row.idImpianto)
    /\ i' = i + 1
    /\ pc' = except_clean
    /\ UNCHANGED <<prices_df, caller_stations, stations_df, geojson, run, first_geojson>>

\* Lines 103-104, after the loop: stations_df still names the caller's frame,
\* so the two columns are set on the caller's object.
AttachPrices ==
    /\ pc = "group"
    /\ i = Len(prices_df)
    /\ prices_df' = AfterIterrows(prices_df)
    /\ caller_stations' = AttachColumns(caller_stations, price_groups, price_dates)
    /\ stations_df' = caller_stations'
    /\ pc' = "notna"
    /\ UNCHANGED <<price_groups, price_dates, main_category, i, geojson, run, first_geojson>>

\* Line 107: from here stations_df names a new frame.
RemoveUnpriced ==
    /\ pc = "notna"
    /\ stations_df' = DropUnpriced(stations_df)
    /\ pc' = "to_numeric"
    /\ UNCHANGED <<prices_df, caller_stations, price_groups, price_dates,
                   main_category, i, geojson, run, first_geojson>>

\* Lines 111-112.
CleanCoordinates ==
    /\ pc = "to_numeric"
    /\ stations_df' = CoerceCoordinates(stations_df)
    /\ pc' = "dropna"
    /\ UNCHANGED <<prices_df, caller_stations, price_groups, price_dates,
                   main_category, i, geojson, run, first_geojson>>

\* Lines 115-118.
DropInvalidCoordinates ==
    /\ pc = "dropna"
    /\ stations_df' = DropNaCoordinates(stations_df)
    /\ pc' = "bbox"
    /\ UNCHANGED <<prices_df, caller_stations, price_groups, price_dates,
                   main_category, i, geojson, run, first_geojson>>

\* Lines 121-129: the bounding-box filter, and the return.
ReturnFiltered ==
    /\ pc = "bbox"
    /\ stations_df' = FilterItaly(stations_df)
    /\ pc' = "merged"
    /\ UNCHANGED <<prices_df, caller_stations, price_groups, price_dates,
                   main_category, i, geojson, run, first_geojson>>

\* create_geojson on the frame clean_and_merge_data returned.
CreateGeojson ==
    /\ pc = "merged"
    /\ geojson' = Features(stations_df)
    /\ pc' = "done"
    /\ UNCHANGED <<prices_df, caller_stations, stations_df, price_groups, price_dates,
                   main_category, i, run, first_geojson>>

\* The caller runs the two functions again on the same two objects.
Rerun ==
    /\ pc = "done"
    /\ run = "first"
    /\ run' = "second"
    /\ first_geojson' = geojson
    /\ stations_df' = caller_stations
    /\ price_groups' = EmptyDict
    /\ price_dates' = EmptyDict
    /\ main_category' = ""
    /\ i' = 0
    /\ geojson' = << >>
    /\ pc' = "group"
    /\ UNCHANGED <<prices_df, caller_stations>>

Next ==
    \/ GroupRow
    \/ GroupRowRaises
    \/ AttachPrices
    \/ RemoveUnpriced
    \/ CleanCoordinates
    \/ DropInvalidCoordinates
    \/ ReturnFiltered
    \/ CreateGeojson
    \/ Rerun

Spec == Init /\ [][Next]_vars

(***************************************************************************)
(* Reference definitions: what the claims speak of, stated on the two      *)
(* input frames directly.                                                   *)
(***************************************************************************)
Min(S) == CHOOSE x \in S : \A y \in S : x <= y

AfterLoop == pc \notin {"group", "aborted"} \/ (pc = "group" /\ i = Len(prices_df))

\* The category get_main_fuel_category gives each price row's raw name.
CategoryOfRow ==
    [k \in DOMAIN prices_df |-> get_main_fuel_category(prices_df[k].descCarburante)]

\* The positions of the price rows of station sid whose raw name maps to cat.
RowsOf(sid, cat) ==
    { k \in DOMAIN prices_df : prices_df[k].idImpianto = sid /\ CategoryOfRow[k] = cat }

PriceAt(k) == float(prices_df[k].prezzo).v

\* The minimum of the prices of the rows at the given positions.
MinPrice(rows) == Min({ PriceAt(k) : k \in rows })

\* The first of the given positions whose price is that minimum.
FirstMinRow(rows) == LET m == MinPrice(rows) IN Min({ k \in rows : PriceAt(k) = m })

Malformed(k) == ~ float(prices_df[k].prezzo).ok

Priced(id) == \E k \in DOMAIN prices_df : prices_df[k].idImpianto = id

Numeric(cell) == cell \in DOMAIN CoordLiterals

ValidCoordinates(s) ==
    /\ Numeric(s.Latitudine) /\ Numeric(s.Longitudine)
    /\ CoordLiterals[s.Latitudine] # 0 /\ CoordLiterals[s.Longitudine] # 0
    /\ 35 <= CoordLiterals[s.Latitudine] /\ CoordLiterals[s.Latitudine] <= 48
    /\ 6 <= CoordLiterals[s.Longitudine] /\ CoordLiterals[s.Longitudine] <= 19

\* The input station records a feature is due for, in input order.
ExpectedStations ==
    SelectSeq(caller_stations, LAMBDA s : Priced(s.idImpianto) /\ ValidCoordinates(s))

\* The whole pipeline as one function of a price frame and a station frame.
RECURSIVE GroupsAfter(_)
GroupsAfter(rows) ==
    IF rows = << >> THEN EmptyDict
    ELSE GroupedPrices(rows[Len(rows)], GroupsAfter(SubSeq(rows, 1, Len(rows) - 1)))

RECURSIVE DatesAfter(_)
DatesAfter(rows) ==
    IF rows = << >> THEN EmptyDict
    ELSE LET before == SubSeq(rows, 1, Len(rows) - 1) IN
         GroupedDates(rows[Len(rows)], GroupsAfter(before), DatesAfter(before))

Document(prices, stations) ==
    Features(FilterItaly(DropNaCoordinates(CoerceCoordinates(DropUnpriced(
        AttachColumns(stations, GroupsAfter(prices), DatesAfter(prices)))))))

WellFormedRows == SelectSeq(prices_df, LAMBDA r : float(r.prezzo).ok)

\* The feature property filled from a station column.
PropertyOf(feature, column) ==
    CASE column = "Gestore" -> feature.properties.Gestore
      [] column = "Bandiera" -> feature.properties.Bandiera
      [] column = "Tipo Impianto" -> feature.properties.TipoImpianto
      [] column = "Nome Impianto" -> feature.properties.NomeImpianto
      [] column = "Indirizzo" -> feature.properties.Indirizzo
      [] column = "Comune" -> feature.properties.Comune
      [] OTHER -> feature.properties.Provincia

(***************************************************************************)
(* Claims.                                                                 *)
(***************************************************************************)

\* C1: every station clean_and_merge_data returns, and every feature built
\* from it, has a price map with at least one entry, a latitude in [35,48], a
\* longitude in [6,19] and no zero coordinate; its identifier appears in a
\* price row and both its input coordinate cells are numeric.
C1_ResultPricedAndInsideBox ==
    pc \in {"merged", "done"} =>
        /\ \A k \in DOMAIN stations_df :
             LET s == stations_df[k]
                 input == caller_stations[s.index + 1]
             IN /\ s.prices.col = "dict" /\ DOMAIN s.prices.val # {}
                /\ s.Latitudine.ok /\ s.Longitudine.ok
                /\ 35 <= s.Latitudine.v /\ s.Latitudine.v <= 48
                /\ 6 <= s.Longitudine.v /\ s.Longitudine.v <= 19
                /\ s.Latitudine.v # 0 /\ s.Longitudine.v # 0
                /\ Priced(s.idImpianto)
                /\ input.idImpianto = s.idImpianto
                /\ Numeric(input.Latitudine) /\ Numeric(input.Longitudine)
        /\ pc = "done" =>
             \A k \in DOMAIN geojson :
                /\ DOMAIN geojson[k].properties.prices # {}
                /\ geojson[k].geometry.coordinates[2] \in 35..48
                /\ geojson[k].geometry.coordinates[1] \in 6..19

\* A run that emitted a feature while dropping an unpriced station and a
\* station outside the box or with a non-numeric coordinate.
C1_Witness ==
    /\ pc = "done" /\ geojson # << >>
    /\ \E k \in DOMAIN caller_stations : ~ Priced(caller_stations[k].idImpianto)
    /\ \E k \in DOMAIN caller_stations :
          Priced(caller_stations[k].idImpianto) /\ ~ ValidCoordinates(caller_stations[k])

C3_CategoryIsDocumentedOrIdentity ==
    i >= 1 =>
          LET f == prices_df[i].descCarburante
              listing == { k \in DOMAIN FUEL_CATEGORIES : f \in Range(FUEL_CATEGORIES[k].fuels) }
          IN
          /\ Cardinality(listing) <= 1
          /\ \A k \in listing : main_category = FUEL_CATEGORIES[k].category
          /\ listing = {} => main_category = f
          /\ pc # "aborted" => main_category \in DOMAIN price_groups[prices_df[i].idImpianto]

\* A listed raw name that differs from its category has been normalised.
C3_Witness ==
    /\ i >= 1
    /\ prices_df[i].descCarburante = "Gasolio Bio HVO"
    /\ main_category = "Gasolio HVO"

\* C3, the fallback: a name outside the table has been normalised.
C3_WitnessUnlisted ==
    /\ i >= 1
    /\ \A k \in DOMAIN FUEL_CATEGORIES :
          prices_df[i].descCarburante \notin Range(FUEL_CATEGORIES[k].fuels)
    /\ main_category = prices_df[i].descCarburante

\* C4 as stated: with a malformed price value among the rows the run is not
\* aborted, and the document is the one the other rows alone produce.
C4_MalformedRowIsSkipped ==
    (\E k \in DOMAIN prices_df : Malformed(k)) =>
        /\ pc # "aborted"
        /\ pc = "done" =>
             geojson = Document(WellFormedRows,
                                [k \in DOMAIN caller_stations |->
                                    [caller_stations[k] EXCEPT !.prices = NoColumn,
                                                               !.priceDates = NoColumn]])

\* C4 amended: a malformed price value aborts the run when the loop reaches its
\* row: the process ends there, nothing is returned or emitted and the station
\* frame is untouched; a run gets past the loop only if every price is numeric.
C4_MalformedRowAbortsRun ==
    /\ pc = "aborted" =>
          /\ Malformed(i)
          /\ \A k \in 1..(i - 1) : ~ Malformed(k)
          /\ geojson = << >>
          /\ stations_df = caller_stations
          /\ ~ ENABLED Next
    /\ pc = "group" => \A k \in 1..i : ~ Malformed(k)
    /\ pc \notin {"group", "aborted"} => \A k \in DOMAIN prices_df : ~ Malformed(k)

\* A run aborted on a malformed row that follows a well-formed one.
C4_Witness ==
    /\ pc = "aborted" /\ i = 2
    /\ Malformed(2) /\ ~ Malformed(1)

\* C5 as stated: no step changes the caller's price frame or station frame.
C5_InputsNotMutated ==
    [][prices_df' = prices_df /\ caller_stations' = caller_stations]_vars

\* C6: the features are the input station records that have a price row and
\* valid coordinates, one each, in input order, with coordinates
\* [longitude, latitude].
C6_FeaturesAreValidPricedStationsInOrder ==
    pc = "done" =>
        LET expected == ExpectedStations IN
        /\ Len(geojson) = Len(expected)
        /\ \A k \in DOMAIN geojson :
             /\ k \in DOMAIN expected
             /\ geojson[k].properties.idImpianto = expected[k].idImpianto
             /\ stations_df[k].index = expected[k].index
             /\ geojson[k].geometry.coordinates =
                   << CoordLiterals[expected[k].Longitudine],
                      CoordLiterals[expected[k].Latitudine] >>

\* Two features out of two or more stations, on the edges of the box, with
\* latitude and longitude different.
C6_Witness ==
    /\ pc = "done" /\ Len(geojson) = 2
    /\ geojson[1].geometry.coordinates = << 12, 35 >>
    /\ geojson[2].geometry.coordinates = << 19, 41 >>

\* C6, the stable filter: a dropped station between two kept ones.
C6_WitnessDroppedBetween ==
    /\ pc = "done" /\ Len(geojson) = 2 /\ Len(caller_stations) = 4
    /\ geojson[1].properties.idImpianto = caller_stations[1].idImpianto
    /\ geojson[2].properties.idImpianto = caller_stations[3].idImpianto

C8_SecondRunSameDocument ==
    (pc = "done" /\ run = "second") => geojson = first_geojson

\* A second run that ended with a feature, on a station frame that already
\* carries the first run's columns.
C8_Witness ==
    /\ pc = "done" /\ run = "second" /\ geojson # << >>
    /\ \E k \in DOMAIN caller_stations : caller_stations[k].prices.col = "nan"
    /\ \E k \in DOMAIN caller_stations : caller_stations[k].prices.col = "dict"

\* C9 as stated: each descriptive property is the empty string whenever the
\* station has no value for the field, missing column or missing value alike.
C9_MissingDescriptionIsEmptyString ==
    pc = "done" =>
        \A k \in DOMAIN geojson : \A c \in Columns :
            stations_df[k].desc[c].kind \in {"absent", "nan"} =>
                PropertyOf(geojson[k], c) = ""

\* C10: during and after the loop the price map and the date map have the same
\* stations and, per station, the same categories; so have 'prices' and
\* 'priceDates' in every feature.
C10_PriceAndDateKeysAgree ==
    /\ DOMAIN price_groups = DOMAIN price_dates
    /\ \A sid \in DOMAIN price_groups : DOMAIN price_groups[sid] = DOMAIN price_dates[sid]
    /\ \A k \in DOMAIN geojson :
          DOMAIN geojson[k].properties.prices = DOMAIN geojson[k].properties.priceDates

\* A feature with two categories, one of them reached from a raw name that is
\* not the category's name.
C10_Witness ==
    /\ pc = "done"
    /\ \E k \in DOMAIN geojson : Cardinality(DOMAIN geojson[k].properties.prices) = 2
    /\ \E k \in DOMAIN prices_df :
          get_main_fuel_category(prices_df[k].descCarburante) # prices_df[k].descCarburante

====
